---- MODULE Spec2Model ----
(***************************************************************************)
(* Model of scripts/build.js: the post-build text transforms               *)
(* (removeConsoleLogs, replaceNameCalls, removeNonAsciiCharacters,         *)
(* normalizeWhitespace), the key scheme of customObfuscate and the stage   *)
(* sequence of buildWorker.                                                *)
(*                                                                         *)
(* A text is a sequence of one-character strings (UTF-16 code units).      *)
(***************************************************************************)
EXTENDS Integers, Sequences, FiniteSets, TLC

VARIABLES
    pc,            \* position of the operation being run
    code,          \* the text a transform was called with
    result,        \* the text a transform is building / has returned
    replacements,  \* removeConsoleLogs / replaceNameCalls: the collected replacements
    applied,       \* how many of the replacements the loop has applied
    returned,      \* the texts the calls made so far have returned, in order
    shape,         \* how the input text was put together (ghost, read by the properties)
    SHIFT_KEY,     \* customObfuscate: the shift key drawn for this build
    XOR_KEY,       \* customObfuscate: the XOR key drawn for this build
    plain,         \* character codes handed to the encode callback
    cipher,        \* what encode returned
    decoded,       \* what the embedded decode routine returned
    build          \* buildWorker: its promise, the archive task, the console and the exit status

vars == <<pc, code, result, replacements, applied, returned, shape, SHIFT_KEY, XOR_KEY, plain, cipher, decoded, build>>

textVars == <<code, result, replacements, applied, returned, shape>>
obfVars == <<SHIFT_KEY, XOR_KEY, plain, cipher, decoded>>

\* the build record while no build is running
NoBuild == [ mode |-> "throw", promise |-> "pending", archive |-> "idle", running |-> {},
             done |-> <<>>, failed |-> "none", log |-> <<>>, exited |-> FALSE, status |-> 0 ]

(***************************************************************************)
(* Sequence helpers                                                        *)
(***************************************************************************)
RECURSIVE Flatten(_)
Flatten(ss) == IF ss = <<>> THEN <<>> ELSE Head(ss) \o Flatten(Tail(ss))

\* JS substring(from, to) with 0-based offsets, clamped to the text
Substring(s, from, to) ==
    LET f == IF from > Len(s) THEN Len(s) ELSE from
        t == IF to > Len(s) THEN Len(s) ELSE to
    IN  IF f >= t THEN <<>> ELSE SubSeq(s, f + 1, t)

\* JS s[i] with a 0-based offset; "" stands for undefined
At(s, i) == IF i >= 0 /\ i < Len(s) THEN s[i + 1] ELSE ""

\* whether text t occurs in s at 0-based offset i
StartsWithAt(s, i, t) ==
    /\ i + Len(t) <= Len(s)
    /\ \A k \in 1..Len(t) : s[i + k] = t[k]

(***************************************************************************)
(* customObfuscate: the key scheme                                         *)
(***************************************************************************)
BASE_KEY == 128

\* getRandomInt(min, max): every value Math.floor(Math.random() * (max - min + 1)) + min
\* can take, Math.random() being in [0, 1)
getRandomInt(min, max) == { k + min : k \in 0..(max - min) }

\* JS ^ on non-negative operands below 2^31
RECURSIVE BitXor(_, _)
BitXor(a, b) ==
    IF a = 0 THEN b
    ELSE IF b = 0 THEN a
    ELSE (((a % 2) + (b % 2)) % 2) + 2 * BitXor(a \div 2, b \div 2)

\* the encode callback, per character code
EncodeChar(c, shift, xor) == (BitXor(c, xor) + shift) % BASE_KEY

\* the decode routine embedded in the bundle, per character code
DecodeChar(c, shift, xor) == BitXor((c - shift + BASE_KEY) % BASE_KEY, xor)

\* the character codes of the supported base range
BaseCodes == [i \in 1..BASE_KEY |-> i - 1]

ObfInit ==
    /\ pc = "obfuscate"
    /\ SHIFT_KEY = 0 /\ XOR_KEY = 0
    /\ plain = <<>> /\ cipher = <<>> /\ decoded = <<>> /\ build = NoBuild
    /\ code = <<>> /\ result = <<>> /\ replacements = <<>> /\ applied = 0 /\ returned = <<>> /\ shape = <<>>

\* customObfuscate draws the two keys
DrawKeys ==
    /\ pc = "obfuscate"
    /\ SHIFT_KEY' \in getRandomInt(1, BASE_KEY)
    /\ XOR_KEY' \in getRandomInt(1, BASE_KEY)
    /\ pc' = "keys"
    /\ UNCHANGED <<plain, cipher, decoded, textVars, build>>

\* the obfuscator calls encode(str) on a concealed string
Encode ==
    /\ pc = "keys"
    /\ plain' = BaseCodes
    /\ cipher' = [i \in 1..Len(BaseCodes) |-> EncodeChar(BaseCodes[i], SHIFT_KEY, XOR_KEY)]
    /\ pc' = "encoded"
    /\ UNCHANGED <<SHIFT_KEY, XOR_KEY, decoded, textVars, build>>

\* at run time the embedded routine decodes the concealed string
Decode ==
    /\ pc = "encoded"
    /\ decoded' = [i \in 1..Len(cipher) |-> DecodeChar(cipher[i], SHIFT_KEY, XOR_KEY)]
    /\ pc' = "decoded"
    /\ UNCHANGED <<SHIFT_KEY, XOR_KEY, plain, cipher, textVars, build>>

ObfNext == DrawKeys \/ Encode \/ Decode

SpecObf == ObfInit /\ [][ObfNext]_vars

\* C1: for every shift key and XOR key getRandomInt(1, BASE_KEY) can return and every
\* character code of the base range, decoding the encoding returns the original code.
C1_RoundTrip == pc = "decoded" => decoded = plain

(***************************************************************************)
(* removeConsoleLogs                                                       *)
(***************************************************************************)
\* the character ` (a TLA+ string literal cannot hold it)
BACKTICK == "<backtick>"

\* \s of a JS regular expression and String.prototype.trim, over the ASCII characters
\* a TLA+ string can hold
IsSpace(c) == c \in {" ", "\t", "\n", "\r", "\f"}

CONSOLE_DOT == <<"c", "o", "n", "s", "o", "l", "e", ".">>

\* the alternatives (log|error|warn|info|debug) of consoleStartRegex, in their order
Severities ==
    << <<"l", "o", "g">>, <<"e", "r", "r", "o", "r">>, <<"w", "a", "r", "n">>,
       <<"i", "n", "f", "o">>, <<"d", "e", "b", "u", "g">> >>

VOID_0 == <<"v", "o", "i", "d", " ", "0">>

\* offset of the first character at or after i that is not white space
RECURSIVE SkipSpace(_, _)
SkipSpace(s, i) == IF i < Len(s) /\ IsSpace(s[i + 1]) THEN SkipSpace(s, i + 1) ELSE i

\* length of the match of /console\.(log|error|warn|info|debug)\s*\(/ at offset i, 0 if none
ConsoleStartLen(s, i) ==
    IF ~StartsWithAt(s, i, CONSOLE_DOT) THEN 0
    ELSE LET j == i + Len(CONSOLE_DOT)
             hits == { n \in 1..Len(Severities) : StartsWithAt(s, j, Severities[n]) }
         IN  IF hits = {} THEN 0
             ELSE LET n == CHOOSE m \in hits : \A o \in hits : m <= o
                      k == SkipSpace(s, j + Len(Severities[n]))
                  IN  IF At(s, k) = "(" THEN k + 1 - i ELSE 0

\* consoleStartRegex.exec(code) with lastIndex = from: the offset of the next match, -1 if none
RECURSIVE ConsoleStartFrom(_, _)
ConsoleStartFrom(s, from) ==
    IF from >= Len(s) THEN -1
    ELSE IF ConsoleStartLen(s, from) > 0 THEN from
    ELSE ConsoleStartFrom(s, from + 1)

\* the inner while loop: scans for the closing parenthesis, returns pos and parenCount
RECURSIVE ScanParens(_, _, _, _, _, _)
ScanParens(s, pos, parenCount, inString, stringChar, escaped) ==
    IF ~(pos < Len(s) /\ parenCount > 0)
    THEN [pos |-> pos, parenCount |-> parenCount]
    ELSE LET char == s[pos + 1] IN
         IF escaped
         THEN ScanParens(s, pos + 1, parenCount, inString, stringChar, FALSE)
         ELSE IF char = "\\" /\ inString
         THEN ScanParens(s, pos + 1, parenCount, inString, stringChar, TRUE)
         ELSE IF ~inString /\ char \in {"\"", "'", BACKTICK}
         THEN ScanParens(s, pos + 1, parenCount, TRUE, char, FALSE)
         ELSE IF inString /\ char = stringChar
         THEN ScanParens(s, pos + 1, parenCount, FALSE, "", FALSE)
         ELSE IF ~inString
         THEN ScanParens(s, pos + 1,
                         IF char = "(" THEN parenCount + 1
                         ELSE IF char = ")" THEN parenCount - 1 ELSE parenCount,
                         inString, stringChar, FALSE)
         ELSE ScanParens(s, pos + 1, parenCount, inString, stringChar, FALSE)

\* endPos of a complete call that closes at pos: white space is skipped, one ';' is taken
CallEnd(s, pos) ==
    LET e == SkipSpace(s, pos)
    IN  IF e < Len(s) /\ s[e + 1] = ";" THEN e + 1 ELSE e

\* the outer while loop: every complete call found from lastIndex on, in the order found
RECURSIVE CollectCalls(_, _)
CollectCalls(s, lastIndex) ==
    LET startPos == ConsoleStartFrom(s, lastIndex) IN
    IF startPos < 0 THEN <<>>
    ELSE LET len == ConsoleStartLen(s, startPos)
             openParenPos == startPos + len - 1
             scan == ScanParens(s, openParenPos + 1, 1, FALSE, "", FALSE)
             rest == CollectCalls(s, startPos + len)
         IN  IF scan.parenCount = 0
             THEN LET endPos == CallEnd(s, scan.pos)
                  IN  << [start |-> startPos, end |-> endPos,
                          original |-> Substring(s, startPos, endPos)] >> \o rest
             ELSE rest

\* replacements.sort((a, b) => b.start - a.start): stable, highest start first
RECURSIVE InsertByStart(_, _)
InsertByStart(r, sorted) ==
    IF sorted = <<>> THEN <<r>>
    ELSE IF r.start > Head(sorted).start THEN <<r>> \o sorted
    ELSE <<Head(sorted)>> \o InsertByStart(r, Tail(sorted))

RECURSIVE SortByStartDesc(_)
SortByStartDesc(rs) ==
    IF rs = <<>> THEN <<>>
    ELSE InsertByStart(rs[Len(rs)], SortByStartDesc(SubSeq(rs, 1, Len(rs) - 1)))

\* replacement.original.trim().endsWith(';')
RECURSIVE TrimEnd(_)
TrimEnd(s) == IF s # <<>> /\ IsSpace(s[Len(s)]) THEN TrimEnd(SubSeq(s, 1, Len(s) - 1)) ELSE s

HasTrailingSemicolon(original) ==
    LET t == TrimEnd(original) IN t # <<>> /\ t[Len(t)] = ";"

\* one turn of the for loop over the sorted replacements
Substitute(text, replacement) ==
    Substring(text, 0, replacement.start)
        \o (IF HasTrailingSemicolon(replacement.original) THEN VOID_0 \o <<";">> ELSE VOID_0)
        \o Substring(text, replacement.end, Len(text))

RECURSIVE SubstituteAll(_, _)
SubstituteAll(text, rs) ==
    IF rs = <<>> THEN text ELSE SubstituteAll(Substitute(text, Head(rs)), Tail(rs))

\* removeConsoleLogs(code), as a function of the text
removeConsoleLogs(s) == SubstituteAll(s, SortByStartDesc(CollectCalls(s, 0)))

(***************************************************************************)
(* removeConsoleLogs: the texts it is run on, and its steps                *)
(***************************************************************************)
MaxArgPieces == 3

\* what the argument list of the outermost call is put together from: an identifier,
\* parentheses, string literals of the three quote styles holding parentheses and
\* escapes, and the start of a logging call
LOG_OPEN == CONSOLE_DOT \o Severities[1] \o <<"(">>

ArgPieces ==
    { <<"a">>, <<"(">>, <<")">>,
      <<"\"", "(", "\"">>,                          \* "("
      <<"'", ")", "'">>,                            \* ')'
      <<BACKTICK, "\\", BACKTICK, ")", BACKTICK>>,  \* a template holding \` and )
      <<"\"", "\\", "\\", "\"">>,                   \* "\\"
      LOG_OPEN }

\* the sequences of at most n elements of S
SeqsUpTo(S, n) == UNION { [1..k -> S] : k \in 0..n }

\* console.<severity>, optional white space, (
CallHeads ==
    { CONSOLE_DOT \o Severities[n] \o gap \o <<"(">> :
        n \in 1..Len(Severities), gap \in { <<>>, <<" ">> } }

Prefixes == { <<>>, <<"x", "=">> }

Tails == { <<>>, <<";">>, <<" ", ";", "y">>, <<"y">>, <<"\n", "y", ";">> }

LogShapes ==
    [ pre : Prefixes, head : CallHeads, args : SeqsUpTo(ArgPieces, MaxArgPieces), tail : Tails ]

ShapeText(sh) == sh.pre \o sh.head \o Flatten(sh.args) \o <<")">> \o sh.tail

\* the parentheses of the pieces are balanced: head, args and ")" are one complete call
RECURSIVE BalancedFrom(_, _)
BalancedFrom(pieces, depth) ==
    IF pieces = <<>> THEN depth = 0
    ELSE LET p == Head(pieces)
             d == IF p = <<"(">> \/ p = LOG_OPEN THEN depth + 1
                  ELSE IF p = <<")">> THEN depth - 1 ELSE depth
         IN  d >= 0 /\ BalancedFrom(Tail(pieces), d)

LogsInit ==
    /\ pc = "collect"
    /\ shape \in LogShapes
    /\ code = ShapeText(shape)
    /\ result = code
    /\ replacements = <<>>
    /\ applied = 0
    /\ returned = <<>>
    /\ SHIFT_KEY = 0 /\ XOR_KEY = 0 /\ plain = <<>> /\ cipher = <<>> /\ decoded = <<>> /\ build = NoBuild

\* lines 52-110: the spans are collected against code, then sorted
CollectSpans ==
    /\ pc = "collect"
    /\ replacements' = SortByStartDesc(CollectCalls(code, 0))
    /\ pc' = "replace"
    /\ UNCHANGED <<code, result, applied, returned, shape, obfVars, build>>

\* lines 112-120: one turn of the substitution loop
ApplyReplacement ==
    /\ pc = "replace"
    /\ applied < Len(replacements)
    /\ result' = Substitute(result, replacements[applied + 1])
    /\ applied' = applied + 1
    /\ UNCHANGED <<pc, code, replacements, returned, shape, obfVars, build>>

\* lines 122-123
ReturnResult ==
    /\ pc = "replace"
    /\ applied = Len(replacements)
    /\ returned' = Append(returned, result)
    /\ pc' = "done"
    /\ UNCHANGED <<code, result, replacements, applied, shape, obfVars, build>>

LogsNext == CollectSpans \/ ApplyReplacement \/ ReturnResult

SpecLogs == LogsInit /\ [][LogsNext]_vars

\* the text after a call with its leading white space dropped
DropSpace(s) == Substring(s, SkipSpace(s, 0), Len(s))

\* the call of a shape is followed, after optional white space, by ';'
FollowedBySemicolon(sh) == DropSpace(sh.tail) # <<>> /\ Head(DropSpace(sh.tail)) = ";"

\* C2: a complete call console.<severity>( ... ), whatever parentheses, nested calls
\* and quoted strings (holding parentheses and escaped quotes) its arguments hold, is
\* removed in full and replaced by 'void 0'; a ';' that follows it (after optional
\* white space) is kept exactly once, and none is added when there is none: the text
\* before the call, the no-op, the terminator if any, then what followed.
C2_CallRemoved ==
    (pc = "done" /\ BalancedFrom(shape.args, 0)) =>
        IF FollowedBySemicolon(shape)
        THEN result = shape.pre \o VOID_0 \o <<";">> \o Tail(DropSpace(shape.tail))
        ELSE result \in { shape.pre \o VOID_0 \o shape.tail,
                          shape.pre \o VOID_0 \o DropSpace(shape.tail) }

\* the same statement for the calls whose arguments hold no start of a logging call
C2_HoldsWithoutNestedLog ==
    (pc = "done" /\ BalancedFrom(shape.args, 0)
        /\ \A k \in 1..Len(shape.args) : shape.args[k] # LOG_OPEN) =>
        IF FollowedBySemicolon(shape)
        THEN result = shape.pre \o VOID_0 \o <<";">> \o Tail(DropSpace(shape.tail))
        ELSE result = shape.pre \o VOID_0 \o DropSpace(shape.tail)

\* whether offset i of the text lies in one of the spans
InSpan(rs, i) == \E k \in 1..Len(rs) : rs[k].start <= i /\ i < rs[k].end

\* the text from offset i on, cut where the next span starts
RECURSIVE OutsideRun(_, _, _)
OutsideRun(s, rs, i) ==
    IF i >= Len(s) \/ InSpan(rs, i) THEN <<>> ELSE <<s[i + 1]>> \o OutsideRun(s, rs, i + 1)

RECURSIVE SpanRunEnd(_, _, _)
SpanRunEnd(s, rs, i) == IF i < Len(s) /\ InSpan(rs, i) THEN SpanRunEnd(s, rs, i + 1) ELSE i

\* out is the text s from offset i on with every stretch covered by spans replaced
\* by a no-op ('void 0' or 'void 0;') and every other character kept
RECURSIVE KeepsOutside(_, _, _, _)
KeepsOutside(s, rs, i, out) ==
    IF i >= Len(s) THEN out = <<>>
    ELSE IF InSpan(rs, i)
    THEN LET j == SpanRunEnd(s, rs, i) IN
         /\ StartsWithAt(out, 0, VOID_0)
         /\ \/ KeepsOutside(s, rs, j, Substring(out, Len(VOID_0), Len(out)))
            \/ /\ At(out, Len(VOID_0)) = ";"
               /\ KeepsOutside(s, rs, j, Substring(out, Len(VOID_0) + 1, Len(out)))
    ELSE LET run == OutsideRun(s, rs, i) IN
         /\ StartsWithAt(out, 0, run)
         /\ KeepsOutside(s, rs, i + Len(run), Substring(out, Len(run), Len(out)))

\* C10: the spans are substituted from the highest start offset to the lowest; at each
\* substitution the recorded offsets of the span still delimit that span in the
\* current text; and every character of the input outside all spans is in the output,
\* unchanged and in order.
C10_OffsetsStayValid ==
    /\ pc = "replace" =>
          \A k \in 1..(Len(replacements) - 1) : replacements[k].start > replacements[k + 1].start
    /\ (pc = "replace" /\ applied < Len(replacements)) =>
          LET r == replacements[applied + 1]
          IN  Substring(result, r.start, r.end) = r.original
    /\ pc = "done" => KeepsOutside(code, replacements, 0, result)

(***************************************************************************)
(* normalizeWhitespace                                                     *)
(*                                                                         *)
(* Each alternative of the pattern is an operator giving the offset after  *)
(* its match at offset i, or -1; the backtracking of the engine is spelled *)
(* out where an alternative has a choice to undo.                          *)
(***************************************************************************)
\* (?<string>"(?:\\"|[^"])*"|'(?:\\'|[^'])*') for the quote q at offset i, scanning at p.
\* The starred group takes \q (two characters) before any other character and stops at
\* a bare q, which closes the string. When the text ends first, the engine undoes its
\* latest \q: the backslash is taken alone and that q closes the string (lastEsc is
\* the offset of that q, -1 if there is none).
RECURSIVE StringScan(_, _, _, _)
StringScan(s, q, p, lastEsc) ==
    IF p >= Len(s) THEN (IF lastEsc >= 0 THEN lastEsc + 1 ELSE -1)
    ELSE IF s[p + 1] = "\\" /\ At(s, p + 1) = q THEN StringScan(s, q, p + 2, p + 1)
    ELSE IF s[p + 1] # q THEN StringScan(s, q, p + 1, lastEsc)
    ELSE p + 1

StringEnd(s, i) ==
    IF At(s, i) \in {"\"", "'"} THEN StringScan(s, s[i + 1], i + 1, -1) ELSE -1

\* (?:[gmiuy]+)?
RECURSIVE FlagsEnd(_, _)
FlagsEnd(s, p) ==
    IF At(s, p) \in {"g", "m", "i", "u", "y"} THEN FlagsEnd(s, p + 1) ELSE p

\* (?<regex>\/(?:\\\/|[^\/\r\n])+?\/(?:[gmiuy]+)?) scanning at p after n group matches.
\* The group is lazy: after one match or more a '/' closes the span. Otherwise the
\* group takes \/ (two characters) or one character that is no '/' and no line break.
\* When neither is possible the engine undoes its latest \/: the backslash is taken
\* alone and that '/' closes the span.
RECURSIVE RegexScan(_, _, _, _)
RegexScan(s, p, n, lastEsc) ==
    IF n >= 1 /\ At(s, p) = "/" THEN FlagsEnd(s, p + 1)
    ELSE IF At(s, p) = "\\" /\ At(s, p + 1) = "/" THEN RegexScan(s, p + 2, n + 1, p + 1)
    ELSE IF p < Len(s) /\ s[p + 1] \notin {"/", "\r", "\n"} THEN RegexScan(s, p + 1, n + 1, lastEsc)
    ELSE IF lastEsc >= 0 THEN FlagsEnd(s, lastEsc + 1)
    ELSE -1

RegexEnd(s, i) == IF At(s, i) = "/" THEN RegexScan(s, i + 1, 0, -1) ELSE -1

\* (?<block_comment>\/\*.*?\*\/) under the s flag: up to the first */ at or after p
RECURSIVE BlockCommentScan(_, _)
BlockCommentScan(s, p) ==
    IF p + 2 > Len(s) THEN -1
    ELSE IF s[p + 1] = "*" /\ s[p + 2] = "/" THEN p + 2
    ELSE BlockCommentScan(s, p + 1)

BlockCommentEnd(s, i) ==
    IF At(s, i) = "/" /\ At(s, i + 1) = "*" THEN BlockCommentScan(s, i + 2) ELSE -1

\* (?<line_comment>\/\/[^\r\n]*)
RECURSIVE LineCommentScan(_, _)
LineCommentScan(s, p) ==
    IF p < Len(s) /\ s[p + 1] \notin {"\r", "\n"} THEN LineCommentScan(s, p + 1) ELSE p

LineCommentEnd(s, i) ==
    IF At(s, i) = "/" /\ At(s, i + 1) = "/" THEN LineCommentScan(s, i + 2) ELSE -1

\* a run cut after two characters, as [ \t]{1,2} would match
SpaceRunOfTwo(s, p) ==
    IF At(s, p) \in {" ", "\t"}
    THEN (IF At(s, p + 1) \in {" ", "\t"} THEN p + 2 ELSE p + 1)
    ELSE p

\* (?<space>[ \t]+)
RECURSIVE SpaceRun(_, _)
SpaceRun(s, p) == IF At(s, p) \in {" ", "\t"} THEN SpaceRun(s, p + 1) ELSE p

SpaceEnd(s, i) == IF At(s, i) \in {" ", "\t"} THEN SpaceRun(s, i) ELSE -1

\* the pattern at offset i: the first alternative that matches, in the order written
PatternEnd(s, i) ==
    IF StringEnd(s, i) >= 0 THEN StringEnd(s, i)
    ELSE IF RegexEnd(s, i) >= 0 THEN RegexEnd(s, i)
    ELSE IF BlockCommentEnd(s, i) >= 0 THEN BlockCommentEnd(s, i)
    ELSE IF LineCommentEnd(s, i) >= 0 THEN LineCommentEnd(s, i)
    ELSE SpaceEnd(s, i)

\* a callback that drops a match of spaces and tabs instead of leaving one space
ReplaceMatchDropsSpace(match) ==
    IF match # <<>> /\ \A k \in 1..Len(match) : match[k] \in {" ", "\t"}
    THEN <<>> ELSE match

\* the replace callback: a match of spaces and tabs only becomes one space
ReplaceMatch(match) ==
    IF match # <<>> /\ \A k \in 1..Len(match) : match[k] \in {" ", "\t"}
    THEN <<" ">> ELSE match

\* code.replace(pattern, callback) with the g flag, from offset i on
RECURSIVE ReplacePattern(_, _)
ReplacePattern(s, i) ==
    IF i >= Len(s) THEN <<>>
    ELSE LET e == PatternEnd(s, i) IN
         IF e < 0 THEN <<s[i + 1]>> \o ReplacePattern(s, i + 1)
         ELSE ReplaceMatch(Substring(s, i, e)) \o ReplacePattern(s, e)

\* cleaned.replace(/[\r\n]+/g, '\n')
RECURSIVE LineBreakRun(_, _)
LineBreakRun(s, p) == IF At(s, p) \in {"\r", "\n"} THEN LineBreakRun(s, p + 1) ELSE p

RECURSIVE CollapseLineBreaks(_, _)
CollapseLineBreaks(s, i) ==
    IF i >= Len(s) THEN <<>>
    ELSE IF s[i + 1] \in {"\r", "\n"}
    THEN <<"\n">> \o CollapseLineBreaks(s, LineBreakRun(s, i))
    ELSE <<s[i + 1]>> \o CollapseLineBreaks(s, i + 1)

normalizeWhitespace(s) == CollapseLineBreaks(ReplacePattern(s, 0), 0)

(***************************************************************************)
(* normalizeWhitespace: the texts it is run on, and its calls              *)
(***************************************************************************)
MaxWsLen == 5
MaxSegments == 3

\* any text over these characters
WsAlphabet == {" ", "\t", "\n", "\"", "/", "*", "\\", "a"}

\* texts put together from whole tokens: literals and comments of JavaScript ...
ProtectedSegments ==
    { <<"\"", "a", " ", " ", "b", "\"">>,            \* "a  b"
      <<"\"", "\\", "\\", "\"">>,                    \* "\\"
      <<"'", "\t", "\t", "'">>,                      \* a string of two tabs
      <<"/", "*", " ", "\n", "\n", " ", "*", "/">>,  \* a block comment with an empty line
      <<"/", "/", " ", " ", "c">>,                   \* a line comment
      <<"/", "a", " ", " ", "b", "/", "g">> }        \* /a  b/g

\* ... and the code between them
FreeSegments == { <<" ">>, <<" ", " ">>, <<"+">>, <<"\n">> }

IsLineComment(seg) == Len(seg) >= 2 /\ seg[1] = "/" /\ seg[2] = "/"
IsRegexLiteral(seg) == Len(seg) >= 2 /\ seg[1] = "/" /\ seg[2] \notin {"/", "*"}

\* the segments are the tokens a JavaScript lexer reads from their concatenation: a
\* line comment ends the text or is followed by a line break, and a regular
\* expression literal stands where an operand is expected
TokensAsWritten(segs) ==
    \A k \in 1..Len(segs) :
        /\ IsLineComment(segs[k]) => (k = Len(segs) \/ segs[k + 1] = <<"\n">>)
        /\ IsRegexLiteral(segs[k]) => (k = 1 \/ segs[k - 1] = <<"+">>)
        /\ (segs[k] \in ProtectedSegments /\ k > 1 /\ ~IsLineComment(segs[k - 1]))
               => segs[k - 1] \in FreeSegments

WsShapes ==
    { [kind |-> "text", text |-> t] : t \in SeqsUpTo(WsAlphabet, MaxWsLen) }
    \cup
    { [kind |-> "tokens", segs |-> g] :
        g \in { h \in SeqsUpTo(ProtectedSegments \cup FreeSegments, MaxSegments) :
                    TokensAsWritten(h) } }

WsInit ==
    /\ pc = "call"
    /\ shape \in WsShapes
    /\ code = IF shape.kind = "text" THEN shape.text ELSE Flatten(shape.segs)
    /\ result = code
    /\ replacements = <<>> /\ applied = 0 /\ returned = <<>>
    /\ SHIFT_KEY = 0 /\ XOR_KEY = 0 /\ plain = <<>> /\ cipher = <<>> /\ decoded = <<>> /\ build = NoBuild

\* normalizeWhitespace(code)
Normalize ==
    /\ pc = "call"
    /\ result' = normalizeWhitespace(code)
    /\ returned' = Append(returned, result')
    /\ pc' = "once"
    /\ UNCHANGED <<code, replacements, applied, shape, obfVars, build>>

\* normalizeWhitespace applied to what it returned
NormalizeAgain ==
    /\ pc = "once"
    /\ result' = normalizeWhitespace(result)
    /\ returned' = Append(returned, result')
    /\ pc' = "twice"
    /\ UNCHANGED <<code, replacements, applied, shape, obfVars, build>>

WsNext == Normalize \/ NormalizeAgain

SpecWs == WsInit /\ [][WsNext]_vars

\* out is the segments in order, each protected one as written and nothing but
\* free code (spaces, line breaks, operators) between them
RECURSIVE TokensKept(_, _)
TokensKept(segs, out) ==
    IF segs = <<>> THEN out = <<>>
    ELSE IF Head(segs) \in ProtectedSegments
    THEN /\ StartsWithAt(out, 0, Head(segs))
         /\ TokensKept(Tail(segs), Substring(out, Len(Head(segs)), Len(out)))
    ELSE \E k \in 0..Len(out) :
            /\ \A j \in 1..k : out[j] \in {" ", "\n", "+"}
            /\ TokensKept(Tail(segs), Substring(out, k, Len(out)))

\* C3: every string literal, regular-expression literal, block comment and line
\* comment of the input is in the output byte for byte.
C3_ProtectedSpansKept ==
    (pc = "once" /\ shape.kind = "tokens") => TokensKept(shape.segs, result)

\* C6: normalizeWhitespace is idempotent: a second application returns what the
\* first returned.
C6_Idempotent == pc = "twice" => returned[2] = returned[1]

\* a text with a string, a comment opener and white space that the first application changes
C6_Witness ==
    /\ pc = "twice"
    /\ returned[1] # code
    /\ \E k \in 1..Len(code) : code[k] = "\""
    /\ \E k \in 1..Len(code) : code[k] = "/"

(***************************************************************************)
(* removeNonAsciiCharacters                                                *)
(***************************************************************************)
\* code units above 0x7F are written by name
E_ACUTE == "<U+00E9>"

\* the UTF-16 code unit of the characters the texts below are made of
CodeUnit(c) ==
    CASE c = "\t" -> 9
      [] c = "\n" -> 10
      [] c = "\r" -> 13
      [] c = " " -> 32
      [] c = "\"" -> 34
      [] c = "(" -> 40
      [] c = ")" -> 41
      [] c = "," -> 44
      [] c = "." -> 46
      [] c = "/" -> 47
      [] c = "0" -> 48
      [] c = "1" -> 49
      [] c = "2" -> 50
      [] c = "3" -> 51
      [] c = "4" -> 52
      [] c = "5" -> 53
      [] c = "6" -> 54
      [] c = "7" -> 55
      [] c = "8" -> 56
      [] c = "9" -> 57
      [] c = "\\" -> 92
      [] c = "_" -> 95
      [] c = "a" -> 97
      [] c = "b" -> 98
      [] c = "c" -> 99
      [] c = "d" -> 100
      [] c = "e" -> 101
      [] c = "f" -> 102
      [] c = "g" -> 103
      [] c = "l" -> 108
      [] c = "m" -> 109
      [] c = "n" -> 110
      [] c = "o" -> 111
      [] c = "s" -> 115
      [] c = "u" -> 117
      [] c = "x" -> 120
      [] c = "{" -> 123
      [] c = "}" -> 125
      [] c = E_ACUTE -> 233

\* [0-9A-Fa-f]
IsHexDigit(c) ==
    c \in {"0", "1", "2", "3", "4", "5", "6", "7", "8", "9",
           "a", "b", "c", "d", "e", "f", "A", "B", "C", "D", "E", "F"}

\* number of hex digits from offset p on, counted up to max
RECURSIVE HexRun(_, _, _)
HexRun(s, p, max) ==
    IF max > 0 /\ p < Len(s) /\ IsHexDigit(s[p + 1]) THEN 1 + HexRun(s, p + 1, max - 1) ELSE 0

\* length of the match of \\u[0-9A-Fa-f]{4}|\\u\{[0-9A-Fa-f]{1,6}\} at offset i, 0 if none
UnicodeEscapeLen(s, i) ==
    IF ~(At(s, i) = "\\" /\ At(s, i + 1) = "u") THEN 0
    ELSE IF HexRun(s, i + 2, 4) = 4 THEN 6
    ELSE IF At(s, i + 2) = "{"
    THEN LET h == HexRun(s, i + 3, 6)
         IN  IF h >= 1 /\ At(s, i + 3 + h) = "}" THEN h + 4 ELSE 0
    ELSE 0

\* length of the match of the whole pattern at offset i: [^\x00-\x7F] comes first
NonAsciiMatchLen(s, i) ==
    IF i < Len(s) /\ CodeUnit(s[i + 1]) > 127 THEN 1 ELSE UnicodeEscapeLen(s, i)

\* code.replace(/.../g, ''): one pass from left to right over the text as given
RECURSIVE RemoveMatches(_, _)
RemoveMatches(s, i) ==
    IF i >= Len(s) THEN <<>>
    ELSE LET n == NonAsciiMatchLen(s, i) IN
         IF n > 0 THEN RemoveMatches(s, i + n)
         ELSE <<s[i + 1]>> \o RemoveMatches(s, i + 1)

removeNonAsciiCharacters(s) == RemoveMatches(s, 0)

MaxAsciiLen == 6

AsciiAlphabet == {"\\", "u", "0", "{", "}", "x", E_ACUTE}

AsciiInit ==
    /\ pc = "call"
    /\ code \in SeqsUpTo(AsciiAlphabet, MaxAsciiLen)
    /\ result = code
    /\ shape = <<>>
    /\ replacements = <<>> /\ applied = 0 /\ returned = <<>>
    /\ SHIFT_KEY = 0 /\ XOR_KEY = 0 /\ plain = <<>> /\ cipher = <<>> /\ decoded = <<>> /\ build = NoBuild

\* removeNonAsciiCharacters(code)
RemoveNonAscii ==
    /\ pc = "call"
    /\ result' = removeNonAsciiCharacters(code)
    /\ returned' = Append(returned, result')
    /\ pc' = "done"
    /\ UNCHANGED <<code, replacements, applied, shape, obfVars, build>>

AsciiNext == RemoveNonAscii

SpecAscii == AsciiInit /\ [][AsciiNext]_vars

\* C4: the output holds no character above code point 127 and no numeric Unicode
\* escape sequence of either form.
C4_NoEscapeLeft ==
    pc = "done" =>
        /\ \A k \in 1..Len(result) : CodeUnit(result[k]) <= 127
        /\ \A i \in 0..(Len(result) - 1) : UnicodeEscapeLen(result, i) = 0

(***************************************************************************)
(* replaceNameCalls                                                        *)
(***************************************************************************)
NAME_OPEN == <<"_", "_", "n", "a", "m", "e", "(">>

\* offset of the first character c at or after p, Len(s) if there is none
RECURSIVE IndexOfChar(_, _, _)
IndexOfChar(s, c, p) ==
    IF p >= Len(s) \/ s[p + 1] = c THEN p ELSE IndexOfChar(s, c, p + 1)

\* the match of /__name\(([^,]+),\s*"([^"]+)"\)/ at offset i. Every quantifier is
\* greedy and is followed by a character it cannot take, so there is one way to match:
\* [^,]+ runs to the first comma, \s* over the white space, [^"]+ to the next quote.
NameCallAt(s, i) ==
    LET exprStart == i + Len(NAME_OPEN)
        comma == IndexOfChar(s, ",", exprStart)
        quote == SkipSpace(s, comma + 1)
        labelStart == quote + 1
        labelEnd == IndexOfChar(s, "\"", labelStart)
    IN  IF /\ StartsWithAt(s, i, NAME_OPEN)
           /\ comma > exprStart /\ comma < Len(s)
           /\ At(s, quote) = "\""
           /\ labelEnd > labelStart /\ labelEnd < Len(s)
           /\ At(s, labelEnd + 1) = ")"
        THEN [ found |-> TRUE, end |-> labelEnd + 2,
               expr |-> Substring(s, exprStart, comma),
               label |-> Substring(s, labelStart, labelEnd) ]
        ELSE [ found |-> FALSE, end |-> i, expr |-> <<>>, label |-> <<>> ]

\* [...code.matchAll(nameCallRegex)]: match[0] of every match from offset i on
RECURSIVE MatchAllNameCalls(_, _)
MatchAllNameCalls(s, i) ==
    IF i >= Len(s) THEN <<>>
    ELSE LET m == NameCallAt(s, i) IN
         IF m.found THEN <<Substring(s, i, m.end)>> \o MatchAllNameCalls(s, m.end)
         ELSE MatchAllNameCalls(s, i + 1)

\* Math.floor(Math.random() * 16).toString(16)
HexDigitNames ==
    <<"0", "1", "2", "3", "4", "5", "6", "7", "8", "9", "a", "b", "c", "d", "e", "f">>

\* the digits the model draws: HexDigitNames[1..MaxHexDigit + 1]
MaxHexDigit == 1

\* Array.from({length: 4}, ...).join('')
RandomHexStrings == [1..4 -> { HexDigitNames[d + 1] : d \in 0..MaxHexDigit }]

\* match[0].replace(/__name\(([^,]+),\s*"([^"]+)"\)/, `__name($1, "${randomHexString}")`)
NewCall(match0, randomHexString) ==
    LET m == NameCallAt(match0, 0)
    IN  IF m.found
        THEN NAME_OPEN \o m.expr \o <<",", " ", "\"">> \o randomHexString \o <<"\"", ")">>
                 \o Substring(match0, m.end, Len(match0))
        ELSE match0

\* offset of the first occurrence of t in s at or after p, -1 if there is none
RECURSIVE IndexOf(_, _, _)
IndexOf(s, t, p) ==
    IF p + Len(t) > Len(s) THEN -1
    ELSE IF StartsWithAt(s, p, t) THEN p
    ELSE IndexOf(s, t, p + 1)

\* GetSubstitution for a string pattern (no captures): $$ is $, $& the matched text,
\* $` the text before the match, $' the text after it; any other $ stands for itself
RECURSIVE ExpandReplacement(_, _, _, _, _)
ExpandReplacement(new, p, matched, before, after) ==
    IF p >= Len(new) THEN <<>>
    ELSE IF new[p + 1] = "$" /\ At(new, p + 1) = "$"
    THEN <<"$">> \o ExpandReplacement(new, p + 2, matched, before, after)
    ELSE IF new[p + 1] = "$" /\ At(new, p + 1) = "&"
    THEN matched \o ExpandReplacement(new, p + 2, matched, before, after)
    ELSE IF new[p + 1] = "$" /\ At(new, p + 1) = BACKTICK
    THEN before \o ExpandReplacement(new, p + 2, matched, before, after)
    ELSE IF new[p + 1] = "$" /\ At(new, p + 1) = "'"
    THEN after \o ExpandReplacement(new, p + 2, matched, before, after)
    ELSE <<new[p + 1]>> \o ExpandReplacement(new, p + 1, matched, before, after)

\* newCode.replace(replacement.original, replacement.new): the first occurrence only
ReplaceFirst(text, original, new) ==
    LET at == IndexOf(text, original, 0) IN
    IF at < 0 THEN text
    ELSE LET before == Substring(text, 0, at)
             after == Substring(text, at + Len(original), Len(text))
         IN  before \o ExpandReplacement(new, 0, original, before, after) \o after

\* lines 141-146: the replacement of every match, hexes[k] being the string drawn for match k
NameReplacements(matches, hexes) ==
    [k \in 1..Len(matches) |->
        [ original |-> matches[k], new |-> NewCall(matches[k], hexes[k]), hex |-> hexes[k] ]]

\* lines 148-150: replacements.forEach
RECURSIVE ApplyNameReplacements(_, _)
ApplyNameReplacements(text, rs) ==
    IF rs = <<>> THEN text
    ELSE ApplyNameReplacements(ReplaceFirst(text, Head(rs).original, Head(rs).new), Tail(rs))

\* replaceNameCalls(code), as a function of the text and of the strings drawn
replaceNameCalls(s, hexes) ==
    LET matches == MatchAllNameCalls(s, 0) IN
    IF matches = <<>> THEN s
    ELSE ApplyNameReplacements(s, NameReplacements(matches, hexes))

(***************************************************************************)
(* replaceNameCalls: the texts it is run on, and its steps                 *)
(***************************************************************************)
MaxCalls == 2

\* a marker call __name(<expr>,<gap>"<label>"): first arguments (one of them the
\* identifier $$), the white space after the comma, labels (two of them strings the
\* generator can draw)
NameCalls ==
    [ expr : { <<"a">>, <<"b">>, <<"$", "$">> },
      gap : { <<>>, <<" ">> },
      label : { <<"x">>, <<"0", "0", "0", "0">>, <<"0", "0", "0", "1">> } ]

CallText(c, gap, label) ==
    NAME_OPEN \o c.expr \o <<",">> \o gap \o <<"\"">> \o label \o <<"\"", ")", ";">>

NameShapes == SeqsUpTo(NameCalls, MaxCalls)

NameShapeText(calls) ==
    <<"x", ";">> \o Flatten([k \in 1..Len(calls) |-> CallText(calls[k], calls[k].gap, calls[k].label)])

NameInit ==
    /\ pc = "call"
    /\ shape \in NameShapes
    /\ code = NameShapeText(shape)
    /\ result = code
    /\ replacements = <<>> /\ applied = 0 /\ returned = <<>>
    /\ SHIFT_KEY = 0 /\ XOR_KEY = 0 /\ plain = <<>> /\ cipher = <<>> /\ decoded = <<>> /\ build = NoBuild

\* lines 133-136: no match, the text is returned as it is
NoNameCalls ==
    /\ pc = "call"
    /\ MatchAllNameCalls(code, 0) = <<>>
    /\ returned' = Append(returned, code)
    /\ pc' = "done"
    /\ UNCHANGED <<code, result, replacements, applied, shape, obfVars, build>>

\* lines 131-146: one replacement per match, each with a label drawn at random
CollectNameCalls ==
    /\ pc = "call"
    /\ LET matches == MatchAllNameCalls(code, 0) IN
       /\ matches # <<>>
       /\ \E hexes \in [1..Len(matches) -> RandomHexStrings] :
             replacements' = NameReplacements(matches, hexes)
    /\ pc' = "replace"
    /\ UNCHANGED <<code, result, applied, returned, shape, obfVars, build>>

\* lines 148-150: one turn of replacements.forEach
ApplyNameReplacement ==
    /\ pc = "replace"
    /\ applied < Len(replacements)
    /\ result' = ReplaceFirst(result, replacements[applied + 1].original,
                              replacements[applied + 1].new)
    /\ applied' = applied + 1
    /\ UNCHANGED <<pc, code, replacements, returned, shape, obfVars, build>>

\* lines 152-153
ReturnNewCode ==
    /\ pc = "replace"
    /\ applied = Len(replacements)
    /\ returned' = Append(returned, result)
    /\ pc' = "done"
    /\ UNCHANGED <<code, result, replacements, applied, shape, obfVars, build>>

NameNext == NoNameCalls \/ CollectNameCalls \/ ApplyNameReplacement \/ ReturnNewCode

SpecName == NameInit /\ [][NameNext]_vars

\* the input with the label of call k replaced by the string drawn for it; sep tells
\* whether the white space after the comma is written as in the input or as one space
LabelsReplaced(calls, rs, sep) ==
    <<"x", ";">> \o Flatten([k \in 1..Len(calls) |->
        CallText(calls[k], IF sep = "input" THEN calls[k].gap ELSE <<" ">>, rs[k].hex)])

\* C5: every marker call of the input has its label replaced by the string generated
\* for that call; the number of calls, the first argument of each call and the text
\* outside the labels are those of the input. Stated for the calls whose first
\* argument holds no '$'; the white space after the comma is not compared (the code
\* always writes one space there).
C5_EachLabelReplaced ==
    (pc = "done" /\ shape # <<>> /\ \A k \in 1..Len(shape) : shape[k].expr # <<"$", "$">>) =>
        /\ Len(replacements) = Len(shape)
        /\ \/ result = LabelsReplaced(shape, replacements, "input")
           \/ result = LabelsReplaced(shape, replacements, "space")

\* the same statement for every call of the model, the first argument $$ included
C5_AnyFirstArgument ==
    (pc = "done" /\ shape # <<>>) =>
        \/ result = LabelsReplaced(shape, replacements, "input")
        \/ result = LabelsReplaced(shape, replacements, "space")

\* the same statement with the white space after the comma compared as well
C5_SeparatorKept ==
    (pc = "done" /\ shape # <<>>) => result = LabelsReplaced(shape, replacements, "input")

(***************************************************************************)
(* The four transforms on texts that may or may not hold their target      *)
(***************************************************************************)
MaxIdentityPieces == 3

IdentityPieces ==
    { CONSOLE_DOT \o Severities[1], <<"(">>, <<")">>,
      NAME_OPEN \o <<"a">>, <<",", "\"", "x", "\"", ")">>,
      <<"\\", "u">>, <<"0", "0">>, <<E_ACUTE>>,
      <<" ">>, <<"\t">>, <<"\n">>, <<"\r">>,
      <<"\"">>, <<"/">>,
      <<"\"", " ", "\t", " ", "\"">> }

IdentityInit ==
    /\ pc = "call"
    /\ shape \in SeqsUpTo(IdentityPieces, MaxIdentityPieces)
    /\ code = Flatten(shape)
    /\ result = code
    /\ replacements = <<>> /\ applied = 0 /\ returned = <<>>
    /\ SHIFT_KEY = 0 /\ XOR_KEY = 0 /\ plain = <<>> /\ cipher = <<>> /\ decoded = <<>> /\ build = NoBuild

CallRemoveConsoleLogs ==
    /\ pc = "call"
    /\ result' = removeConsoleLogs(code)
    /\ returned' = Append(returned, result')
    /\ pc' = "removeConsoleLogs"
    /\ UNCHANGED <<code, replacements, applied, shape, obfVars, build>>

CallReplaceNameCalls ==
    /\ pc = "call"
    /\ \E hexes \in [1..Len(MatchAllNameCalls(code, 0)) -> RandomHexStrings] :
          result' = replaceNameCalls(code, hexes)
    /\ returned' = Append(returned, result')
    /\ pc' = "replaceNameCalls"
    /\ UNCHANGED <<code, replacements, applied, shape, obfVars, build>>

CallRemoveNonAsciiCharacters ==
    /\ pc = "call"
    /\ result' = removeNonAsciiCharacters(code)
    /\ returned' = Append(returned, result')
    /\ pc' = "removeNonAsciiCharacters"
    /\ UNCHANGED <<code, replacements, applied, shape, obfVars, build>>

CallNormalizeWhitespace ==
    /\ pc = "call"
    /\ result' = normalizeWhitespace(code)
    /\ returned' = Append(returned, result')
    /\ pc' = "normalizeWhitespace"
    /\ UNCHANGED <<code, replacements, applied, shape, obfVars, build>>

IdentityNext ==
    \/ CallRemoveConsoleLogs
    \/ CallReplaceNameCalls
    \/ CallRemoveNonAsciiCharacters
    \/ CallNormalizeWhitespace

SpecIdentity == IdentityInit /\ [][IdentityNext]_vars

\* the target patterns, read on the input
NoConsoleCallStart(s) == \A i \in 0..(Len(s) - 1) : ConsoleStartLen(s, i) = 0
NoNameCall(s) == \A i \in 0..(Len(s) - 1) : ~NameCallAt(s, i).found
NoNonAsciiNoEscape(s) ==
    /\ \A k \in 1..Len(s) : CodeUnit(s[k]) <= 127
    /\ \A i \in 0..(Len(s) - 1) : UnicodeEscapeLen(s, i) = 0

\* the runs of spaces and tabs outside the protected spans, as the pattern delimits them
RECURSIVE FreeSpaceRuns(_, _)
FreeSpaceRuns(s, i) ==
    IF i >= Len(s) THEN <<>>
    ELSE LET e == PatternEnd(s, i) IN
         IF e < 0 THEN FreeSpaceRuns(s, i + 1)
         ELSE IF SpaceEnd(s, i) = e THEN <<Substring(s, i, e)>> \o FreeSpaceRuns(s, e)
         ELSE FreeSpaceRuns(s, e)

NoLongSpaceRun(s) ==
    LET runs == FreeSpaceRuns(s, 0) IN \A k \in 1..Len(runs) : Len(runs[k]) < 2
NoLongLineBreakRun(s) ==
    \A k \in 1..(Len(s) - 1) : ~(s[k] \in {"\r", "\n"} /\ s[k + 1] \in {"\r", "\n"})
NoFreeTab(s) ==
    LET runs == FreeSpaceRuns(s, 0) IN \A k \in 1..Len(runs) : runs[k] # <<"\t">>
NoCarriageReturn(s) == \A k \in 1..Len(s) : s[k] # "\r"

MaxBuildPieces == 2

\* the stages of buildWorker in program order
Stages ==
    << "processHtmlPages", "readFavicon", "build", "jsMinify",
       "removeConsoleLogs", "replaceNameCalls", "removeNonAsciiCharacters",
       "normalizeWhitespace", "customObfuscate", "mkdirSync", "writeWorkerJs",
       "generateAsync", "writeWorkerZip" >>

\* the stages buildWorker suspends on with await
AwaitedStages == { "processHtmlPages", "build", "jsMinify", "customObfuscate" }

\* the stages that run to their end inside one synchronous statement
SyncStages == { "readFavicon", "mkdirSync", "writeWorkerJs" }

\* the four text transforms
TransformStages ==
    { "removeConsoleLogs", "replaceNameCalls", "removeNonAsciiCharacters",
      "normalizeWhitespace" }

\* what the runtime does with a rejected promise nobody handles: raise it as
\* an uncaught exception, or warn and go on
UnhandledRejectionModes == { "throw", "warn" }

StageIndex(stage) == CHOOSE k \in 1..Len(Stages) : Stages[k] = stage

\* the statement after a stage; after generateAsync is called comes the
\* 'Done!' line
NextStatement(stage) ==
    IF stage = "generateAsync" THEN "logDone" ELSE Stages[StageIndex(stage) + 1]

BuildInit ==
    /\ pc = "processHtmlPages"
    /\ \E mode \in UnhandledRejectionModes : build = [NoBuild EXCEPT !.mode = mode]
    /\ shape \in SeqsUpTo(IdentityPieces, MaxBuildPieces)
    /\ code = Flatten(shape)
    /\ result = <<>>
    /\ replacements = <<>> /\ applied = 0 /\ returned = <<>>
    /\ SHIFT_KEY = 0 /\ XOR_KEY = 0 /\ plain = <<>> /\ cipher = <<>> /\ decoded = <<>>

\* an exception inside buildWorker rejects the promise it returned
Rejected(stage) ==
    [build EXCEPT !.promise = "rejected", !.failed = stage,
                  !.running = build.running \ {stage}]

\* a stage has ended well
Completed(stage) ==
    [build EXCEPT !.done = Append(build.done, stage),
                  !.running = build.running \ {stage}]

\* await <stage>(...): the call is made and buildWorker is suspended
AwaitCall ==
    /\ pc \in AwaitedStages
    /\ pc \notin build.running
    /\ build.promise = "pending"
    /\ build' = [build EXCEPT !.running = build.running \cup {pc}]
    /\ UNCHANGED <<pc, textVars, obfVars>>

\* the awaited call fulfils and buildWorker resumes; the minifier's output is
\* the text the transforms work on
AwaitReturn ==
    /\ pc \in AwaitedStages
    /\ pc \in build.running
    /\ build' = Completed(pc)
    /\ result' = IF pc = "jsMinify" THEN code ELSE result
    /\ pc' = NextStatement(pc)
    /\ UNCHANGED <<code, replacements, applied, returned, shape, obfVars>>

\* the awaited call rejects and the await throws
AwaitThrows ==
    /\ pc \in AwaitedStages
    /\ pc \in build.running
    /\ build' = Rejected(pc)
    /\ pc' = "thrown"
    /\ UNCHANGED <<textVars, obfVars>>

\* readFileSync of the icon, mkdirSync, writeFileSync of worker.js
SyncCall ==
    /\ pc \in SyncStages
    /\ build.promise = "pending"
    /\ build' = Completed(pc)
    /\ pc' = NextStatement(pc)
    /\ UNCHANGED <<textVars, obfVars>>

\* a synchronous statement of buildWorker throws
SyncThrows ==
    /\ pc \in SyncStages \cup TransformStages \cup {"generateAsync"}
    /\ build.promise = "pending"
    /\ build' = Rejected(pc)
    /\ pc' = "thrown"
    /\ UNCHANGED <<textVars, obfVars>>

\* processedCode = <transform>(processedCode), the four in a row
Transform ==
    /\ pc \in TransformStages
    /\ build.promise = "pending"
    /\ \/ pc = "removeConsoleLogs" /\ result' = removeConsoleLogs(result)
       \/ /\ pc = "replaceNameCalls"
          /\ \E hexes \in [1..Len(MatchAllNameCalls(result, 0)) -> RandomHexStrings] :
                result' = replaceNameCalls(result, hexes)
       \/ pc = "removeNonAsciiCharacters" /\ result' = removeNonAsciiCharacters(result)
       \/ pc = "normalizeWhitespace" /\ result' = normalizeWhitespace(result)
    /\ returned' = Append(returned, result')
    /\ build' = Completed(pc)
    /\ pc' = NextStatement(pc)
    /\ UNCHANGED <<code, replacements, applied, shape, obfVars>>

\* zip.generateAsync(...).then(...): serialization is started, the callback
\* is registered, and buildWorker goes on to its next statement
GenerateAsync ==
    /\ pc = "generateAsync"
    /\ build.promise = "pending"
    /\ build' = [build EXCEPT !.archive = "serializing",
                              !.running = build.running \cup {"generateAsync"}]
    /\ pc' = NextStatement(pc)
    /\ UNCHANGED <<textVars, obfVars>>

\* console.log('Done!') and the end of the function body: the returned
\* promise is fulfilled
LogDone ==
    /\ pc = "logDone"
    /\ build' = [build EXCEPT !.log = Append(build.log, "Done!"),
                              !.promise = "resolved"]
    /\ pc' = "returned"
    /\ UNCHANGED <<textVars, obfVars>>

\* the serialization settles in a later turn of the event loop, after the
\* synchronous statements that follow the call have run
ArchiveSerialized ==
    /\ build.archive = "serializing"
    /\ pc = "returned"
    /\ ~build.exited
    /\ build' = [Completed("generateAsync") EXCEPT !.archive = "writing"]
    /\ UNCHANGED <<pc, textVars, obfVars>>

ArchiveSerializationFails ==
    /\ build.archive = "serializing"
    /\ pc = "returned"
    /\ ~build.exited
    /\ build' = [build EXCEPT !.archive = "rejected", !.failed = "generateAsync",
                              !.running = build.running \ {"generateAsync"}]
    /\ UNCHANGED <<pc, textVars, obfVars>>

\* the then-callback: writeFileSync('./output/worker.zip', nodebuffer)
ArchiveWrite ==
    /\ build.archive = "writing"
    /\ ~build.exited
    /\ build' = [Completed("writeWorkerZip") EXCEPT !.archive = "written"]
    /\ UNCHANGED <<pc, textVars, obfVars>>

ArchiveWriteFails ==
    /\ build.archive = "writing"
    /\ ~build.exited
    /\ build' = [build EXCEPT !.archive = "rejected", !.failed = "writeWorkerZip"]
    /\ UNCHANGED <<pc, textVars, obfVars>>

\* buildWorker().catch(err => { console.error('Build failed:', err); process.exit(1) })
CatchHandler ==
    /\ build.promise = "rejected"
    /\ ~build.exited
    /\ build' = [build EXCEPT !.log = Append(build.log, "Build failed"), !.exited = TRUE, !.status = 1]
    /\ UNCHANGED <<pc, textVars, obfVars>>

\* the archive chain has rejected and has no handler: the runtime ends the
\* process with status 1 in mode throw, and lets it end normally in mode warn
UnhandledRejection ==
    /\ build.archive = "rejected"
    /\ ~build.exited
    /\ build' = [build EXCEPT !.exited = TRUE,
                              !.status = IF build.mode = "throw" THEN 1 ELSE 0]
    /\ UNCHANGED <<pc, textVars, obfVars>>

\* nothing is left to run: the process ends with status 0
ExitWhenIdle ==
    /\ pc = "returned"
    /\ build.archive = "written"
    /\ ~build.exited
    /\ build' = [build EXCEPT !.exited = TRUE, !.status = 0]
    /\ UNCHANGED <<pc, textVars, obfVars>>

BuildNext ==
    \/ AwaitCall \/ AwaitReturn \/ AwaitThrows
    \/ SyncCall \/ SyncThrows \/ Transform
    \/ GenerateAsync \/ LogDone
    \/ ArchiveSerialized \/ ArchiveSerializationFails
    \/ ArchiveWrite \/ ArchiveWriteFails
    \/ CatchHandler \/ UnhandledRejection \/ ExitWhenIdle

SpecBuild == BuildInit /\ [][BuildNext]_vars

\* the stages that have ended well are the first stages of the fixed order
DoneInOrder ==
    /\ Len(build.done) <= Len(Stages)
    /\ \A k \in 1..Len(build.done) : build.done[k] = Stages[k]

\* C8: once the process has ended, a failure of any stage has printed 'Build
\* failed' and given exit status 1, and exit status 0 means that every stage,
\* the archive write included, has succeeded.
C8_ExitStatus ==
    build.exited =>
        /\ build.failed # "none" =>
               (build.status = 1 /\ \E k \in 1..Len(build.log) : build.log[k] = "Build failed")
        /\ build.status = 0 => (build.failed = "none" /\ build.done = Stages)

\* C9: the stages end in the fixed order, at most one stage is under way at a
\* time, and once 'Done!' is printed or the returned promise is fulfilled the
\* archive has been serialized and written.
C9_StageOrder ==
    /\ DoneInOrder
    /\ Cardinality(build.running) <= 1
    /\ ((\E k \in 1..Len(build.log) : build.log[k] = "Done!") \/ build.promise = "resolved")
          => (build.archive = "written" /\ build.done = Stages)

\* what does hold of the order: the stages that suspend buildWorker and the
\* synchronous ones end in program order, one at a time
C9_OrderOfEndedStages == DoneInOrder /\ Cardinality(build.running) <= 1

\* what does hold of the exit status for the stages buildWorker waits for
C8_AwaitedFailureIsReported ==
    (build.exited /\ build.promise = "rejected") =>
        (build.status = 1 /\ build.log = <<"Build failed">>)

====
